---- MODULE Spec2Model ----
(***************************************************************************)
(* Model of eFFORT/hybrid/hybrid_model.py: the class Hybrid.                *)
(*                                                                         *)
(*   __init__                 reads the three bin-edge lists of a config    *)
(*   generate_hybrid_weights  two weighted 3D histograms -> weight table    *)
(*   calculate_weight         per-event lookup in the zero-padded table     *)
(*                                                                         *)
(* Coordinates, edges and event weights are integers.  Histogram contents  *)
(* are then integers and the quotient (H_incl - H_exc) / H_incl is kept as  *)
(* an exact extended rational <<n, d>> (see divide), with the IEEE values   *)
(* nan, +inf and -inf that numpy produces on a zero divisor.  Rounding of   *)
(* floating point quotients is not modelled.  numpy is taken as a release  *)
(* whose histogramdd still accepts the normed argument.                    *)
(*                                                                         *)
(* Every method is a pure function of the engine's edges and its own       *)
(* arguments, so a behaviour makes each call once: construct, build the    *)
(* table, look events up in it.                                            *)
(***************************************************************************)
EXTENDS Integers, Sequences, FiniteSets, TLC

VARIABLES
    pc,             \* "new", "failed", "ready", "build_error", "built",
                    \* "lookup_error", "looked"
    error,          \* the exception that ended the last call, or "none"
    bins_mX,        \* self.bins_mX
    bins_El_B,      \* self.bins_El_B
    bins_q2,        \* self.bins_q2
    range_mX,       \* self.range_mX
    range_El_B,     \* self.range_El_B
    range_q2,       \* self.range_q2
    inclusive,      \* argument of generate_hybrid_weights: rows of the data frame
    exclusive,      \* argument of generate_hybrid_weights: rows of the data frame
    H_incl,         \* local of generate_hybrid_weights
    H_exc,          \* local of generate_hybrid_weights
    hybrid_weights, \* the table generate_hybrid_weights returned
    x,              \* argument of calculate_weight: rows (El_B, q2, mX)
    lookup          \* the array calculate_weight returned

vars == <<pc, error, bins_mX, bins_El_B, bins_q2, range_mX, range_El_B, range_q2,
          inclusive, exclusive, H_incl, H_exc, hybrid_weights, x, lookup>>

(***************************************************************************)
(* Bounds of the model.                                                    *)
(***************************************************************************)
\* Rows per event table.
MaxEvents == 1

(***************************************************************************)
(* Extended rationals: the float64 values of the weight table.             *)
(*   <<n, d>> with d > 0 and gcd(n, d) = 1 is the number n / d             *)
(*   <<0, 0>> is nan, <<1, 0>> is +inf, <<-1, 0>> is -inf                   *)
(***************************************************************************)
Abs(n) == IF n < 0 THEN -n ELSE n

Sign(n) == IF n < 0 THEN -1 ELSE IF n > 0 THEN 1 ELSE 0

RECURSIVE GCD(_, _)
GCD(a, b) == IF b = 0 THEN a ELSE GCD(b, a % b)

Zero == <<0, 1>>

One == <<1, 1>>

NaN == <<0, 0>>

\* numpy true division of two float arrays, element-wise: n / 0 is nan for
\* n = 0 and a signed infinity otherwise (a warning, not an exception).
divide(n, d) ==
    IF d = 0 THEN <<Sign(n), 0>>
    ELSE LET g == GCD(Abs(n), Abs(d))
         IN  <<(Sign(d) * n) \div g, Abs(d) \div g>>

\* numpy.isnan
isnan(v) == v = NaN

\* v < 0 as IEEE compares: false for nan, true for -inf.
less_than_zero(v) == v[1] < 0

(***************************************************************************)
(* The configuration file, as json.load returns it: a dict whose values    *)
(* are lists of numbers, or something else where the file is malformed.    *)
(* A missing key is a key outside DOMAIN config.                           *)
(***************************************************************************)
List(items) == [type |-> "list", items |-> items]

Number == [type |-> "number", items |-> <<>>]

Keys == {"BINS_MX", "BINS_ELB", "BINS_Q2"}

Dict(present, mX, El_B, q2) ==
    [k \in present |-> IF k = "BINS_MX" THEN mX ELSE IF k = "BINS_ELB" THEN El_B ELSE q2]

\* Strictly increasing edges; El_B has two bins, q2 and mX one each, and
\* the three dimensions differ in their last edge.
ValidConfig == Dict(Keys, List(<<0, 1>>), List(<<0, 1, 3>>), List(<<0, 2>>))

ConfigFiles ==
    { ValidConfig,
      \* edges that are not monotonic
      Dict(Keys, List(<<0, 1>>), List(<<0, 3, 1>>), List(<<0, 2>>)),
      Dict(Keys, List(<<0, 2, 1>>), List(<<0, 1, 3>>), List(<<0, 2>>)),
      \* a key is absent
      Dict(Keys \ {"BINS_MX"}, Number, List(<<0, 1, 3>>), List(<<0, 2>>)),
      Dict(Keys \ {"BINS_ELB"}, List(<<0, 1>>), Number, List(<<0, 2>>)),
      Dict(Keys \ {"BINS_Q2"}, List(<<0, 1>>), List(<<0, 1, 3>>), Number),
      \* fewer than two edges
      Dict(Keys, List(<<0>>), List(<<0, 1, 3>>), List(<<0, 2>>)),
      Dict(Keys, List(<<0, 1>>), List(<<>>), List(<<0, 2>>)),
      \* a value that is no list
      Dict(Keys, List(<<0, 1>>), List(<<0, 1, 3>>), Number) }

\* What v[i] raises (Python index i, 0-based), "none" if it evaluates.
subscript_error(v, i) ==
    IF v.type # "list" THEN "TypeError"
    ELSE IF i >= Len(v.items) THEN "IndexError"
    ELSE "none"

\* The first exception the body of __init__ raises on config, "none" if it
\* runs to its end: the three key look-ups, then the three ranges.
init_error(config) ==
    IF "BINS_MX" \notin DOMAIN config THEN "KeyError"
    ELSE IF "BINS_ELB" \notin DOMAIN config THEN "KeyError"
    ELSE IF "BINS_Q2" \notin DOMAIN config THEN "KeyError"
    ELSE LET first(v) == IF subscript_error(v, 0) # "none" THEN subscript_error(v, 0)
                         ELSE subscript_error(v, 1)
         IN  IF first(config["BINS_MX"]) # "none" THEN first(config["BINS_MX"])
             ELSE IF first(config["BINS_ELB"]) # "none" THEN first(config["BINS_ELB"])
             ELSE first(config["BINS_Q2"])

\* (bins[0], bins[1])
range_of(bins) == <<bins[1], bins[2]>>

(***************************************************************************)
(* Hybrid.__init__(hybrid_config)                                          *)
(***************************************************************************)
Construct(config) ==
    /\ pc = "new"
    /\ IF init_error(config) # "none"
       THEN /\ pc' = "failed"
            /\ error' = init_error(config)
            /\ UNCHANGED <<bins_mX, bins_El_B, bins_q2, range_mX, range_El_B, range_q2>>
       ELSE /\ pc' = "ready"
            /\ error' = "none"
            /\ bins_mX' = config["BINS_MX"].items
            /\ bins_El_B' = config["BINS_ELB"].items
            /\ bins_q2' = config["BINS_Q2"].items
            /\ range_mX' = range_of(config["BINS_MX"].items)
            /\ range_El_B' = range_of(config["BINS_ELB"].items)
            /\ range_q2' = range_of(config["BINS_Q2"].items)
    /\ UNCHANGED <<inclusive, exclusive, H_incl, H_exc, hybrid_weights, x, lookup>>

(***************************************************************************)
(* numpy.histogramdd(sample, bins=[edges, edges, edges], range=...,        *)
(*                   weights=...)                                          *)
(* Each entry of bins is an array of edges, so histogramdd takes the edges *)
(* as given and never reads range, which it uses only to place the edges   *)
(* of a dimension whose bins entry is a number of bins.                    *)
(***************************************************************************)
\* searchsorted with side='left': the number of entries < v.
searchsorted_left(a, v) == Cardinality({i \in 1 .. Len(a) : a[i] < v})

\* numpy.searchsorted(a, v, side='right') on increasing a: the number of
\* entries <= v.
searchsorted(a, v) == Cardinality({i \in 1 .. Len(a) : a[i] <= v})

\* bin_number without the shift of the rightmost edge into the last bin.
bin_number_unshifted(edges, v) == Cardinality({i \in 1 .. Len(edges) : edges[i] <= v})

\* The bin number of v, counting the outlier bin below the first edge as 0:
\* a value on the rightmost edge is shifted into the last bin.
bin_number(edges, v) ==
    LET n == searchsorted(edges, v)
    IN  IF v = edges[Len(edges)] THEN n - 1 ELSE n

\* histogramdd raises ValueError unless the edges increase monotonically.
monotonic(edges) == \A i \in 1 .. Len(edges) - 1 : edges[i] <= edges[i + 1]

\* numpy.bincount(xy, weights) at cell b: the weights of the first r rows
\* whose cell is b.
RECURSIVE bincount(_, _, _, _)
bincount(xy, weights, b, r) ==
    IF r = 0 THEN 0
    ELSE bincount(xy, weights, b, r - 1) + (IF xy[r] = b THEN weights[r] ELSE 0)

\* The bins of a table with these edges, 0-based as numpy indexes them.
BinIndex(bins) ==
    (0 .. Len(bins[1]) - 2) \X (0 .. Len(bins[2]) - 2) \X (0 .. Len(bins[3]) - 2)

\* histogramdd dropping the rows with a coordinate outside range.
histogramdd_within_range(sample, bins, range, weights) ==
    LET inside(r) == \A d \in 1 .. 3 : range[d][1] <= sample[r][d] /\ sample[r][d] <= range[d][2]
        Ncount == [r \in 1 .. Len(sample) |->
                      IF inside(r)
                      THEN <<bin_number(bins[1], sample[r][1]),
                             bin_number(bins[2], sample[r][2]),
                             bin_number(bins[3], sample[r][3])>>
                      ELSE <<0, 0, 0>>]
        hist(b) == bincount(Ncount, weights, b, Len(sample))
    IN  [c \in BinIndex(bins) |-> hist(<<c[1] + 1, c[2] + 1, c[3] + 1>>)]

histogramdd(sample, bins, range, weights) ==
    LET Ncount == [r \in 1 .. Len(sample) |->
                      <<bin_number(bins[1], sample[r][1]),
                        bin_number(bins[2], sample[r][2]),
                        bin_number(bins[3], sample[r][3])>>]
        \* the histogram with an outlier bin on each end of each dimension
        hist(b) == bincount(Ncount, weights, b, Len(sample))
    IN  \* the core: the outlier bins are sliced off
        [c \in BinIndex(bins) |-> hist(<<c[1] + 1, c[2] + 1, c[3] + 1>>)]

\* df[['El_B', 'q2', 'mX']].values
values(df) == [r \in 1 .. Len(df) |-> <<df[r].El_B, df[r].q2, df[r].mX>>]

\* df['__weight__']
weight_column(df) == [r \in 1 .. Len(df) |-> df[r].weight]

\* The exclusive share H_exc / H_incl in place of its complement.
raw_weight_exclusive_share(incl, exc) == divide(exc, incl)

\* One entry of (H_incl - H_exc) / H_incl.
raw_weight(incl, exc) == divide(incl - exc, incl)

\* replace without its first step: a nan stays.
replace_keeping_nan(w) == IF less_than_zero(w) THEN Zero ELSE w

\* replace without its second step: a value below 0 stays.
replace_unclamped(w) == IF isnan(w) THEN One ELSE w

\* One entry of the table: nan becomes 1, then a value below 0 becomes 0.
replace(w) ==
    LET w1 == IF isnan(w) THEN One ELSE w
    IN  IF less_than_zero(w1) THEN Zero ELSE w1

(***************************************************************************)
(* Hybrid.generate_hybrid_weights(inclusive, exclusive)                    *)
(***************************************************************************)
generate_hybrid_weights(inc, exc) ==
    /\ pc = "ready"
    /\ LET bins == <<bins_El_B, bins_q2, bins_mX>>
           range == <<range_El_B, range_q2, range_mX>>
           exc_hist == histogramdd(values(exc), bins, range, weight_column(exc))
           inc_hist == histogramdd(values(inc), bins, range, weight_column(inc))
       IN  IF \E d \in 1 .. 3 : ~monotonic(bins[d])
           THEN /\ pc' = "build_error"
                /\ error' = "ValueError"
                /\ UNCHANGED <<inclusive, exclusive, H_incl, H_exc, hybrid_weights>>
           ELSE /\ pc' = "built"
                /\ error' = "none"
                /\ inclusive' = inc
                /\ exclusive' = exc
                /\ H_exc' = exc_hist
                /\ H_incl' = inc_hist
                /\ hybrid_weights' =
                       [b \in BinIndex(bins) |->
                           replace(raw_weight(inc_hist[b], exc_hist[b]))]
    /\ UNCHANGED <<bins_mX, bins_El_B, bins_q2, range_mX, range_El_B, range_q2, x, lookup>>

(***************************************************************************)
(* Hybrid.calculate_weight(x, hybrid_weights)                              *)
(***************************************************************************)
\* numpy.pad(table, [1, 1], 'edge'): the padding repeats the nearest entry.
pad_edge(table, bins) ==
    LET clip(i, n) == IF i < 0 THEN 0 ELSE IF i > n THEN n ELSE i
    IN  [p \in (0 .. Len(bins[1])) \X (0 .. Len(bins[2])) \X (0 .. Len(bins[3])) |->
            table[<<clip(p[1] - 1, Len(bins[1]) - 2), clip(p[2] - 1, Len(bins[2]) - 2),
                    clip(p[3] - 1, Len(bins[3]) - 2)>>]]

\* numpy.pad(table, [1, 1], 'constant', constant_values=0): one slice of
\* zeros before and after the table along every axis.
pad(table, bins) ==
    [p \in (0 .. Len(bins[1])) \X (0 .. Len(bins[2])) \X (0 .. Len(bins[3])) |->
        IF <<p[1] - 1, p[2] - 1, p[3] - 1>> \in DOMAIN table
        THEN table[<<p[1] - 1, p[2] - 1, p[3] - 1>>]
        ELSE Zero]

\* numpy.digitize(v, bins, right=True): the i with bins[i-1] < v <= bins[i].
digitize_right(v, bins) == Cardinality({i \in 1 .. Len(bins) : bins[i] < v})

\* numpy.digitize(v, bins) on increasing bins: the i with
\* bins[i-1] <= v < bins[i], 0 below the first and len(bins) from the last on.
digitize(v, bins) == Cardinality({i \in 1 .. Len(bins) : bins[i] <= v})

calculate_weight(rows) ==
    /\ pc = "built"
    /\ LET padded_table == pad(hybrid_weights, <<bins_El_B, bins_q2, bins_mX>>)
           digitzed_El == [r \in 1 .. Len(rows) |-> digitize(rows[r][1], bins_El_B)]
           digitzed_q2 == [r \in 1 .. Len(rows) |-> digitize(rows[r][2], bins_q2)]
           digitzed_mX == [r \in 1 .. Len(rows) |-> digitize(rows[r][3], bins_mX)]
           index(r) == <<digitzed_El[r], digitzed_q2[r], digitzed_mX[r]>>
       IN  /\ x' = rows
           /\ IF \E r \in 1 .. Len(rows) : index(r) \notin DOMAIN padded_table
              THEN \* an index beyond the padded table
                   /\ pc' = "lookup_error"
                   /\ error' = "IndexError"
                   /\ UNCHANGED lookup
              ELSE /\ pc' = "looked"
                   /\ error' = "none"
                   /\ lookup' = [r \in 1 .. Len(rows) |-> padded_table[index(r)]]
    /\ UNCHANGED <<bins_mX, bins_El_B, bins_q2, range_mX, range_El_B, range_q2,
                   inclusive, exclusive, H_incl, H_exc, hybrid_weights>>

(***************************************************************************)
(* Inputs.                                                                 *)
(***************************************************************************)
Rows(points, weights) ==
    {[El_B |-> p[1], q2 |-> p[2], mX |-> p[3], weight |-> w] : p \in points, w \in weights}

\* The data frames of at most MaxEvents rows.
DataFrames(rows) == UNION {[1 .. n -> rows] : n \in 0 .. MaxEvents}

\* A point of each El_B bin of ValidConfig and a point beyond its last edge.
BinPoints == {<<0, 0, 0>>, <<2, 0, 0>>, <<4, 0, 0>>}

\* Every coordinate from below the first edge to above the last one.
Around(edges) == (edges[1] - 1) .. (edges[Len(edges)] + 1)

\* The grid of points (El_B, q2, mX) around the bins of ValidConfig.
GridPoints ==
    Around(ValidConfig["BINS_ELB"].items) \X Around(ValidConfig["BINS_Q2"].items)
        \X Around(ValidConfig["BINS_MX"].items)

Init ==
    /\ pc = "new"
    /\ error = "none"
    /\ bins_mX = <<>>
    /\ bins_El_B = <<>>
    /\ bins_q2 = <<>>
    /\ range_mX = <<>>
    /\ range_El_B = <<>>
    /\ range_q2 = <<>>
    /\ inclusive = <<>>
    /\ exclusive = <<>>
    /\ H_incl = <<>>
    /\ H_exc = <<>>
    /\ hybrid_weights = <<>>
    /\ x = <<>>
    /\ lookup = <<>>

Load ==
    /\ pc = "new"
    /\ \E config \in ConfigFiles : Construct(config)

\* Samples of signed weights in few bins: the arithmetic of the table.
Build ==
    /\ pc = "ready"
    /\ \E inc \in DataFrames(Rows(BinPoints, {-1, 1, 2})),
          exc \in DataFrames(Rows(BinPoints, {-1, 1, 2})) :
           generate_hybrid_weights(inc, exc)

\* The weights of the rows of one of the two samples, as in
\* df['hybrid_weight'] = calculate_weight(df[['El_B', 'q2', 'mX']], hybrid_weights)
Apply ==
    /\ pc = "built"
    /\ \E df \in {inclusive, exclusive} : calculate_weight(values(df))

\* One sample anywhere on the grid, the other in the first bin: the binning
\* of the table and of the lookup.
BuildGrid ==
    /\ pc = "ready"
    /\ \E grid \in DataFrames(Rows(GridPoints, {2})),
          origin \in DataFrames(Rows({<<0, 0, 0>>}, {1})) :
           \/ generate_hybrid_weights(grid, origin)
           \/ generate_hybrid_weights(origin, grid)

Next == Load \/ Build \/ BuildGrid \/ Apply

Spec == Init /\ [][Next]_vars

(***************************************************************************)
(* Vocabulary of the properties.                                           *)
(***************************************************************************)
\* __init__ returned an engine.
Constructed == pc \in {"ready", "build_error", "built", "lookup_error", "looked"}

\* generate_hybrid_weights returned a table.
Built == pc \in {"built", "lookup_error", "looked"}

Edges == <<bins_El_B, bins_q2, bins_mX>>

LastEdge(d) == Edges[d][Len(Edges[d])]

StrictlyIncreasing(edges) ==
    /\ Len(edges) >= 2
    /\ \A i \in 1 .. Len(edges) - 1 : edges[i] < edges[i + 1]

\* The number n / d lies in [0, 1]: not nan, not infinite.
InUnitInterval(v) == v[2] > 0 /\ 0 <= v[1] /\ v[1] <= v[2]

Coordinates(row) == <<row.El_B, row.q2, row.mX>>

\* v lies in bin i (0-based) of edges: edges[i] <= v < edges[i+1], and the
\* last bin also holds its upper edge.
InBin(v, edges, i) ==
    /\ edges[i + 1] <= v
    /\ \/ v < edges[i + 2]
       \/ i = Len(edges) - 2 /\ v = edges[i + 2]

\* v lies in bin i of edges, every bin open at its upper edge.
InHalfOpenBin(v, edges, i) == edges[i + 1] <= v /\ v < edges[i + 2]

\* The bin b = <<i, j, k>> holds the point p in all three dimensions.
Holds(b, p) == \A d \in 1 .. 3 : InBin(p[d], Edges[d], b[d])

\* No coordinate of p is below the first or above the last edge.
WithinEdges(p) == \A d \in 1 .. 3 : Edges[d][1] <= p[d] /\ p[d] <= LastEdge(d)

\* No coordinate of p is below the first or above the second edge.
WithinRange(p) == \A d \in 1 .. 3 : Edges[d][1] <= p[d] /\ p[d] <= Edges[d][2]

\* Some coordinate of p is below the first edge or at or above the last.
OutOfRange(p) == \E d \in 1 .. 3 : p[d] < Edges[d][1] \/ p[d] >= LastEdge(d)

RECURSIVE WeightOf(_, _)
\* The total weight of the rows of df whose numbers are in the set.
WeightOf(df, rows) ==
    IF rows = {} THEN 0
    ELSE LET r == CHOOSE r \in rows : TRUE
         IN  df[r].weight + WeightOf(df, rows \ {r})

RECURSIVE Content(_, _)
\* The total content of the bins of a histogram.
Content(H, bins) ==
    IF bins = {} THEN 0
    ELSE LET b == CHOOSE b \in bins : TRUE
         IN  H[b] + Content(H, bins \ {b})

\* The rows of df that bin b holds.
RowsIn(df, b) == {r \in 1 .. Len(df) : Holds(b, Coordinates(df[r]))}

(***************************************************************************)
(* C1. Every entry of the table generate_hybrid_weights returns lies in    *)
(* [0, 1], whatever the two samples and the signs of their weights: no     *)
(* entry is negative, greater than 1, nan or infinite.                     *)
(* Fails: a bin without inclusive content and with negative exclusive      *)
(* content has the entry +inf.                                             *)
(***************************************************************************)
C1_EntriesInUnitInterval ==
    Built => \A b \in DOMAIN hybrid_weights : InUnitInterval(hybrid_weights[b])

(***************************************************************************)
(* C2. Every bin whose inclusive content is zero has weight exactly 1,     *)
(* whatever its exclusive content.                                         *)
(* Fails: with positive exclusive content the quotient is -inf, which is   *)
(* no nan, and the entry becomes 0.                                        *)
(***************************************************************************)
C2_ZeroInclusiveGivesOne ==
    Built => \A b \in DOMAIN hybrid_weights : H_incl[b] = 0 => hybrid_weights[b] = One

\* C2 as amended: every bin whose inclusive and exclusive contents are both
\* zero has weight exactly 1.
C2_EmptyBinGivesOne ==
    Built => \A b \in DOMAIN hybrid_weights :
                 H_incl[b] = 0 /\ H_exc[b] = 0 => hybrid_weights[b] = One

\* A table with a bin that both samples leave empty while both have rows.
C2_Witness ==
    /\ Built
    /\ Len(inclusive) > 0
    /\ Len(exclusive) > 0
    /\ \E b \in DOMAIN hybrid_weights :
           H_incl[b] = 0 /\ H_exc[b] = 0 /\ hybrid_weights[b] = One

(***************************************************************************)
(* C3. Every bin whose inclusive and exclusive contents are equal has      *)
(* weight 0, also where both contents are zero.                            *)
(* Fails: 0 / 0 is nan, and the entry becomes 1.                           *)
(***************************************************************************)
C3_EqualContentsGiveZero ==
    Built => \A b \in DOMAIN hybrid_weights :
                 H_incl[b] = H_exc[b] => hybrid_weights[b] = Zero

\* C3 as amended: every bin whose inclusive and exclusive contents are equal
\* has weight 0, except where both contents are zero, where it has weight 1.
C3_EqualContentsGiveZeroOrOne ==
    Built => \A b \in DOMAIN hybrid_weights :
                 H_incl[b] = H_exc[b] =>
                     hybrid_weights[b] = IF H_incl[b] = 0 THEN One ELSE Zero

\* A table with a bin that the exclusive sample saturates.
C3_Witness ==
    /\ Built
    /\ \E b \in DOMAIN hybrid_weights :
           H_incl[b] = H_exc[b] /\ H_incl[b] # 0 /\ hybrid_weights[b] = Zero

(***************************************************************************)
(* C4. Every bin whose exclusive content exceeds its inclusive content has *)
(* weight 0, also for samples with signed weights.                         *)
(* Fails: with negative inclusive content the quotient is positive.        *)
(***************************************************************************)
C4_OvershootGivesZero ==
    Built => \A b \in DOMAIN hybrid_weights :
                 H_exc[b] > H_incl[b] => hybrid_weights[b] = Zero

\* C4 as amended: every bin whose exclusive content exceeds its inclusive
\* content, the inclusive content not being negative, has weight 0.
C4_OvershootOfNonNegativeGivesZero ==
    Built => \A b \in DOMAIN hybrid_weights :
                 H_exc[b] > H_incl[b] /\ H_incl[b] >= 0 => hybrid_weights[b] = Zero

\* A table with a bin whose exclusive content exceeds a positive inclusive content.
C4_Witness ==
    /\ Built
    /\ \E b \in DOMAIN hybrid_weights :
           H_exc[b] > H_incl[b] /\ H_incl[b] > 0 /\ hybrid_weights[b] = Zero

(***************************************************************************)
(* C5. calculate_weight returns 0, and raises no IndexError, for every     *)
(* event that is out of range in some dimension (below the first edge, or  *)
(* at or above the last edge), whatever its other coordinates and the      *)
(* entries of the table.                                                   *)
(***************************************************************************)
C5_OutOfRangeGetsZero ==
    /\ pc # "lookup_error"
    /\ pc = "looked" =>
           /\ Len(lookup) = Len(x)
           /\ \A r \in 1 .. Len(x) : OutOfRange(x[r]) => lookup[r] = Zero

\* An event on the last El_B edge, on the first edge of q2 and of mX,
\* looked up in a table without a zero entry.
C5_Witness ==
    /\ pc = "looked"
    /\ \A b \in DOMAIN hybrid_weights : hybrid_weights[b] # Zero
    /\ \E r \in 1 .. Len(x) :
           /\ x[r] = <<LastEdge(1), Edges[2][1], Edges[3][1]>>
           /\ lookup[r] = Zero

(***************************************************************************)
(* C6. For every event with edges[0] <= coordinate < edges[last] in each   *)
(* dimension, calculate_weight returns the entry T[i, j, k] of the one bin *)
(* with edges[i] <= coordinate < edges[i+1] per dimension, in the axis     *)
(* order El_B, q2, mX: an event on the lower edge of the first bin gets    *)
(* the first bin's entry, an event on an interior edge the entry of the    *)
(* bin above that edge.                                                    *)
(***************************************************************************)
C6_InRangeGetsItsBin ==
    pc = "looked" =>
        \A r \in 1 .. Len(x) :
            ~OutOfRange(x[r]) =>
                LET bins == {b \in DOMAIN hybrid_weights :
                                \A d \in 1 .. 3 : InHalfOpenBin(x[r][d], Edges[d], b[d])}
                IN  /\ Cardinality(bins) = 1
                    /\ \A b \in bins : lookup[r] = hybrid_weights[b]

\* An event on the interior El_B edge and on the first edge of q2 and of mX,
\* looked up in a table whose entries above and below that edge differ.
C6_Witness ==
    /\ pc = "looked"
    /\ hybrid_weights[<<1, 0, 0>>] # hybrid_weights[<<0, 0, 0>>]
    /\ hybrid_weights[<<1, 0, 0>>] # Zero
    /\ \E r \in 1 .. Len(x) :
           /\ x[r] = <<Edges[1][2], Edges[2][1], Edges[3][1]>>
           /\ lookup[r] = hybrid_weights[<<1, 0, 0>>]

(***************************************************************************)
(* C7. In generate_hybrid_weights each event adds its weight to at most    *)
(* one bin of its histogram: the bin that holds it in all three            *)
(* dimensions, bins closed below and open above, the last bin of each      *)
(* dimension closed at both ends.  An event with a coordinate below the    *)
(* first or above the last edge adds to no bin, so the content of all bins *)
(* is the total weight of the events within the edges.                     *)
(***************************************************************************)
C7_EachEventInAtMostOneBin ==
    Built =>
        \A s \in {<<inclusive, H_incl>>, <<exclusive, H_exc>>} :
            LET df == s[1]
                H == s[2]
            IN  /\ \A b \in DOMAIN H : H[b] = WeightOf(df, RowsIn(df, b))
                /\ \A r \in 1 .. Len(df) :
                       LET holding == {b \in DOMAIN H : Holds(b, Coordinates(df[r]))}
                       IN  /\ Cardinality(holding) <= 1
                           /\ ~WithinEdges(Coordinates(df[r])) => holding = {}
                /\ Content(H, DOMAIN H) =
                       WeightOf(df, {r \in 1 .. Len(df) : WithinEdges(Coordinates(df[r]))})

\* An inclusive event on the last edge of every dimension, counted in the
\* last bin.
C7_Witness ==
    /\ Built
    /\ \E r \in 1 .. Len(inclusive) :
           /\ Coordinates(inclusive[r]) = <<LastEdge(1), LastEdge(2), LastEdge(3)>>
           /\ H_incl[<<Len(Edges[1]) - 2, Len(Edges[2]) - 2, Len(Edges[3]) - 2>>] # 0

(***************************************************************************)
(* C8. Constructing the engine fails with a ConfigurationError whenever a  *)
(* required key is absent or malformed or an edge sequence has fewer than  *)
(* two edges or is not strictly increasing; every engine that was          *)
(* constructed holds three strictly increasing edge sequences.             *)
(* Fails: __init__ validates nothing.  It raises KeyError, IndexError or   *)
(* TypeError, and takes edges that do not increase as they are.            *)
(***************************************************************************)
C8_ConstructionValidates ==
    /\ pc = "failed" => error = "ConfigurationError"
    /\ Constructed => \A d \in 1 .. 3 : StrictlyIncreasing(Edges[d])

(***************************************************************************)
(* C9. The range the engine derives per dimension is (edges[0], edges[1]), *)
(* and generate_hybrid_weights histograms with that range: an event with a *)
(* coordinate outside the range of its dimension is excluded from the sums *)
(* of both H_incl and H_exc.                                               *)
(* Fails: numpy.histogramdd does not read range where the bins are edges.  *)
(***************************************************************************)
C9_RangeExcludesEvents ==
    /\ Constructed =>
           /\ range_El_B = <<bins_El_B[1], bins_El_B[2]>>
           /\ range_q2 = <<bins_q2[1], bins_q2[2]>>
           /\ range_mX = <<bins_mX[1], bins_mX[2]>>
    /\ Built =>
           \A s \in {<<inclusive, H_incl>>, <<exclusive, H_exc>>} :
               \A b \in DOMAIN s[2] :
                   s[2][b] = WeightOf(s[1], {r \in RowsIn(s[1], b) :
                                                WithinRange(Coordinates(s[1][r]))})

\* C9 as amended: the range the engine derives per dimension is
\* (edges[0], edges[1]) and is handed to the histograms, which do not apply
\* it: the sums of both H_incl and H_exc exclude the events with a
\* coordinate below the first or above the last edge, and no others.
C9_RangeDerivedNotApplied ==
    /\ Constructed =>
           /\ range_El_B = <<bins_El_B[1], bins_El_B[2]>>
           /\ range_q2 = <<bins_q2[1], bins_q2[2]>>
           /\ range_mX = <<bins_mX[1], bins_mX[2]>>
    /\ Built =>
           \A s \in {<<inclusive, H_incl>>, <<exclusive, H_exc>>} :
               Content(s[2], DOMAIN s[2]) =
                   WeightOf(s[1], {r \in 1 .. Len(s[1]) :
                                      WithinEdges(Coordinates(s[1][r]))})

\* An inclusive event inside the second El_B bin, beyond the range of El_B,
\* that is counted.
C9_Witness ==
    /\ Built
    /\ \E r \in 1 .. Len(inclusive) :
           LET p == Coordinates(inclusive[r])
           IN  /\ range_El_B[2] < p[1]
               /\ p[1] < LastEdge(1)
               /\ WithinEdges(p)
               /\ Len(inclusive) = 1
               /\ H_incl[<<1, 0, 0>>] = inclusive[r].weight

(***************************************************************************)
(* C10. Builder and lookup agree on the bin of every point: if             *)
(* generate_hybrid_weights counts an event at a point in bin (i, j, k),    *)
(* calculate_weight returns T[i, j, k] for that point, and if it counts    *)
(* the event in no bin, calculate_weight returns 0; also for a coordinate  *)
(* equal to the last edge of its dimension.                                *)
(* Fails: the builder counts a coordinate on the last edge in the last     *)
(* bin, the lookup takes it for overflow.                                  *)
(***************************************************************************)
\* The bin in which the builder counts an event at p, outside the table
\* where it counts the event in no bin.
BuilderBin(p) ==
    <<bin_number(bins_El_B, p[1]) - 1, bin_number(bins_q2, p[2]) - 1,
      bin_number(bins_mX, p[3]) - 1>>

Agree(r) ==
    IF BuilderBin(x[r]) \in DOMAIN hybrid_weights
    THEN lookup[r] = hybrid_weights[BuilderBin(x[r])]
    ELSE lookup[r] = Zero

C10_BuilderAndLookupAgree ==
    pc = "looked" => \A r \in 1 .. Len(x) : Agree(r)

\* C10 as amended: builder and lookup agree on the bin of every point none
\* of whose coordinates equals the last edge of its dimension.
C10_AgreeOffTheLastEdge ==
    pc = "looked" =>
        \A r \in 1 .. Len(x) :
            (\A d \in 1 .. 3 : x[r][d] # LastEdge(d)) => Agree(r)

\* An event inside the second El_B bin, looked up in a table whose entry
\* for that bin is neither 0 nor the entry of the first bin.
C10_Witness ==
    /\ pc = "looked"
    /\ \E r \in 1 .. Len(x) :
           /\ \A d \in 1 .. 3 : x[r][d] # LastEdge(d)
           /\ BuilderBin(x[r]) = <<1, 0, 0>>
           /\ hybrid_weights[<<1, 0, 0>>] # Zero
           /\ hybrid_weights[<<1, 0, 0>>] # hybrid_weights[<<0, 0, 0>>]
           /\ lookup[r] = hybrid_weights[<<1, 0, 0>>]

====
